---- MODULE Spec2Model ----
(***************************************************************************)
(* The Relay type AST nodes of src/relay/ir/type.cc as a state machine.    *)
(*                                                                         *)
(* The state is the object heap (every node built so far, addressed by     *)
(* its index, which is the node's identity), together with the last call:  *)
(* its name, its inputs, the handle it returned, the exception it threw    *)
(* (none of the functions of this file throws), the expression returned by *)
(* the last Size() and the text written by the last IRPrinter run.         *)
(***************************************************************************)
EXTENDS Integers, Sequences, FiniteSets, TLC

VARIABLES heap, op, args, ret, thrown, sizeOut, stream, first

vars == <<heap, op, args, ret, thrown, sizeOut, stream, first>>

(***************************************************************************)
(* Bounds of the exploration.                                              *)
(***************************************************************************)
\* nodes built in one run of the general specification
MaxNodes == 2
\* tensor types built in one run of the tensor specification
MaxTensors == 1
\* nodes built before the one call the per-constructor specifications make
MaxLeaves == 2
\* length of the Array<Type> arguments of the per-constructor specifications
MaxArgs == 2
\* rank of the tensor shapes of the tensor specification
MaxRank == 3

(***************************************************************************)
(* Values.                                                                 *)
(***************************************************************************)
\* the null ObjectRef: a handle that holds no node
Null == 0

DTypes == {"int32", "bool"}
Kinds == {"Type", "ShapeVar"}
Names == {"a"}
\* registered relation functions a TypeRelationFn handle can name
RelFns == {"Broadcast"}
\* Attrs handles: the null Attrs and one attribute object
AttrsRefs == {0, 1}

\* IndexExpr values: an integer immediate, the Any wildcard, and (what an
\* Array<IndexExpr> can also hold) an expression that is not of integer type
IntImm(dtype, value) == [e |-> "IntImm", dtype |-> dtype, value |-> value]
AnyDim == [e |-> "Any"]
FloatImm(value) == [e |-> "FloatImm", dtype |-> "float32", value |-> value]
\* a * b of two IndexExpr
Mul(a, b) == [e |-> "Mul", a |-> a, b |-> b]

\* make_const(DataType::Int(64), 1)
make_const(dtype, value) == IntImm(dtype, value)

Dims == {IntImm("int32", 2), AnyDim, FloatImm(2)}

\* a dimension the spec allows: the wildcard or an integer expression
IsIntegerDim(d) == d.e \in {"Any", "IntImm"}

RECURSIVE SeqsUpTo(_, _)
SeqsUpTo(S, n) ==
    IF n = 0 THEN {<<>>}
    ELSE LET shorter == SeqsUpTo(S, n - 1)
         IN  shorter \cup {Append(s, x) : s \in {t \in shorter : Len(t) = n - 1}, x \in S}

(***************************************************************************)
(* make_object<T>(): a node at a fresh address.  A call's outcome is the   *)
(* heap after it, the handle it returns and the exception it throws.       *)
(***************************************************************************)
make_object(h, node) ==
    [heap |-> Append(h, node), ret |-> Len(h) + 1, thrown |-> "none"]

(***************************************************************************)
(* The constructors.                                                       *)
(***************************************************************************)
\* a make that checks every dimension and throws on one that is not an integer
TensorTypeNode_make_Checked(h, shape, dtype) ==
    IF \E i \in 1..Len(shape) : ~IsIntegerDim(shape[i])
    THEN [heap |-> h, ret |-> Null, thrown |-> "InvalidShapeDimension"]
    ELSE make_object(h, [tag |-> "TensorType", shape |-> shape, dtype |-> dtype])

TensorTypeNode_make(h, shape, dtype) ==
    make_object(h, [tag |-> "TensorType", shape |-> shape, dtype |-> dtype])

\* a Scalar that builds a one-element shape
TensorTypeNode_Scalar_Rank1(h, dtype) ==
    TensorTypeNode_make(h, <<IntImm("int32", 1)>>, dtype)

TensorTypeNode_Scalar(h, dtype) == TensorTypeNode_make(h, <<>>, dtype)

\* a make that interns: it returns the variable of that name and kind, if one exists
TypeVarNode_make_Interned(h, name, kind) ==
    LET node == [tag |-> "TypeVar", var |-> [name_hint |-> name], kind |-> kind]
        same == {i \in 1..Len(h) : h[i] = node}
    IN  IF same # {}
        THEN [heap |-> h, ret |-> CHOOSE i \in same : TRUE, thrown |-> "none"]
        ELSE make_object(h, node)

TypeVarNode_make(h, name, kind) ==
    make_object(h, [tag |-> "TypeVar", var |-> [name_hint |-> name], kind |-> kind])

GlobalTypeVarNode_make(h, name, kind) ==
    make_object(h, [tag |-> "GlobalTypeVar", var |-> [name_hint |-> name], kind |-> kind])

TypeCallNode_make(h, func, targs) ==
    make_object(h, [tag |-> "TypeCall", func |-> func, args |-> targs])

IncompleteTypeNode_make(h, kind) ==
    make_object(h, [tag |-> "IncompleteType", kind |-> kind])

FuncTypeNode_make(h, arg_types, ret_type, type_params, type_constraints) ==
    make_object(h, [tag |-> "FuncType", arg_types |-> arg_types, ret_type |-> ret_type,
                    type_params |-> type_params, type_constraints |-> type_constraints])

\* a make that checks 0 <= num_inputs <= len(args) and throws otherwise
TypeRelationNode_make_Validating(h, func, targs, num_inputs, attrs) ==
    IF num_inputs < 0 \/ num_inputs > Len(targs)
    THEN [heap |-> h, ret |-> Null, thrown |-> "MalformedRelation"]
    ELSE make_object(h, [tag |-> "TypeRelation", func |-> func, args |-> targs,
                         num_inputs |-> num_inputs, attrs |-> attrs])

\* a make that takes num_inputs from the argument count and reverses the arguments
TypeRelationNode_make_Reversed(h, func, targs, num_inputs, attrs) ==
    make_object(h, [tag |-> "TypeRelation", func |-> func,
                    args |-> [i \in 1..Len(targs) |-> targs[Len(targs) + 1 - i]],
                    num_inputs |-> Len(targs), attrs |-> attrs])

TypeRelationNode_make(h, func, targs, num_inputs, attrs) ==
    make_object(h, [tag |-> "TypeRelation", func |-> func, args |-> targs,
                    num_inputs |-> num_inputs, attrs |-> attrs])

TupleTypeNode_make(h, fields) ==
    make_object(h, [tag |-> "TupleType", fields |-> fields])

\* a make that throws on a null value
RefTypeNode_make_Checked(h, value) ==
    IF value = Null
    THEN [heap |-> h, ret |-> Null, thrown |-> "NullChild"]
    ELSE make_object(h, [tag |-> "RefType", value |-> value])

RefTypeNode_make(h, value) ==
    make_object(h, [tag |-> "RefType", value |-> value])

(***************************************************************************)
(* TensorTypeNode::Size(): the loop  size = shape[0]; size *= shape[i].    *)
(* size is a local handle: size *= x rebinds it to the new product.        *)
(***************************************************************************)
RECURSIVE SizeLoop(_, _, _)
SizeLoop(shape, size, i) ==
    IF i < Len(shape) THEN SizeLoop(shape, Mul(size, shape[i + 1]), i + 1) ELSE size

\* a Size whose fold starts from the constant 1
TensorTypeNode_Size_UnitStart(h, n) ==
    [heap |-> h, size |-> SizeLoop(h[n].shape, make_const("int64", 1), 0)]

\* a Size that multiplies into shape[0] itself
TensorTypeNode_Size_InPlace(h, n) ==
    LET shape == h[n].shape
        size == IF Len(shape) = 0 THEN make_const("int64", 1)
                ELSE SizeLoop(shape, shape[1], 1)
    IN  [heap |-> IF Len(shape) = 0 THEN h ELSE [h EXCEPT ![n].shape[1] = size],
         size |-> size]

TensorTypeNode_Size(h, n) ==
    LET shape == h[n].shape
    IN  [heap |-> h,
         size |-> IF Len(shape) = 0 THEN make_const("int64", 1)
                  ELSE SizeLoop(shape, shape[1], 1)]

(***************************************************************************)
(* The IRPrinter dispatch table.  The printers of the values this file     *)
(* does not define (arrays, data types, kinds, index expressions, null     *)
(* handles, raw pointers) come first.                                      *)
(***************************************************************************)
PrintDType(dtype) == dtype

PrintKind(kind) == kind

PrintPointer(n) == "0x" \o ToString(n)

RECURSIVE PrintExpr(_)
PrintExpr(x) ==
    CASE x.e = "IntImm" -> ToString(x.value)
      [] x.e = "Any" -> "?"
      [] x.e = "FloatImm" -> ToString(x.value) \o "f"
      [] x.e = "Mul" -> "(" \o PrintExpr(x.a) \o "*" \o PrintExpr(x.b) \o ")"

RECURSIVE PrintExprs(_, _)
PrintExprs(xs, i) ==
    IF i > Len(xs) THEN ""
    ELSE (IF i > 1 THEN ", " ELSE "") \o PrintExpr(xs[i]) \o PrintExprs(xs, i + 1)

PrintShape(xs) == "[" \o PrintExprs(xs, 1) \o "]"

RECURSIVE IRPrinter_Print(_, _)
RECURSIVE PrintElems(_, _, _)
PrintElems(h, rs, i) ==
    IF i > Len(rs) THEN ""
    ELSE (IF i > 1 THEN ", " ELSE "") \o IRPrinter_Print(h, rs[i]) \o PrintElems(h, rs, i + 1)

PrintArray(h, rs) == "[" \o PrintElems(h, rs, 1) \o "]"

Dispatch_TensorTypeNode(h, n) ==
    "TensorType(" \o PrintShape(h[n].shape) \o ", " \o PrintDType(h[n].dtype) \o ")"

\* a printer that also writes the node's address
Dispatch_TypeVarNode_Pointer(h, n) ==
    "TypeVarNode(" \o h[n].var.name_hint \o ", " \o PrintKind(h[n].kind)
        \o ", " \o PrintPointer(n) \o ")"

Dispatch_TypeVarNode(h, n) ==
    "TypeVarNode(" \o h[n].var.name_hint \o ", " \o PrintKind(h[n].kind) \o ")"

Dispatch_GlobalTypeVarNode(h, n) ==
    "GlobalTypeVarNode(" \o h[n].var.name_hint \o ", " \o PrintKind(h[n].kind) \o ")"

Dispatch_TypeCallNode(h, n) ==
    "TypeCallNode(" \o IRPrinter_Print(h, h[n].func) \o ", " \o PrintArray(h, h[n].args) \o ")"

Dispatch_IncompleteTypeNode(h, n) ==
    "IncompleteTypeNode(" \o PrintKind(h[n].kind) \o ", " \o PrintPointer(n) \o ")"

\* a printer that writes the fields in the order FuncTypeNode::make takes them
Dispatch_FuncTypeNode_CtorOrder(h, n) ==
    "FuncTypeNode(" \o PrintArray(h, h[n].arg_types) \o ", "
        \o IRPrinter_Print(h, h[n].ret_type) \o ", " \o PrintArray(h, h[n].type_params) \o ", "
        \o PrintArray(h, h[n].type_constraints) \o ")"

Dispatch_FuncTypeNode(h, n) ==
    "FuncTypeNode(" \o PrintArray(h, h[n].type_params) \o ", "
        \o PrintArray(h, h[n].arg_types) \o ", " \o IRPrinter_Print(h, h[n].ret_type) \o ", "
        \o PrintArray(h, h[n].type_constraints) \o ")"

Dispatch_TypeRelationNode(h, n) ==
    "TypeRelationNode(" \o h[n].func \o ", " \o PrintArray(h, h[n].args) \o ")"

Dispatch_TupleTypeNode(h, n) ==
    "TupleTypeNode(" \o PrintArray(h, h[n].fields) \o ")"

Dispatch_RefTypeNode(h, n) ==
    "RefTypeNode(" \o IRPrinter_Print(h, h[n].value) \o ")"

IRPrinter_Print(h, r) ==
    IF r = Null THEN "(nullptr)"
    ELSE CASE h[r].tag = "TensorType" -> Dispatch_TensorTypeNode(h, r)
           [] h[r].tag = "TypeVar" -> Dispatch_TypeVarNode(h, r)
           [] h[r].tag = "GlobalTypeVar" -> Dispatch_GlobalTypeVarNode(h, r)
           [] h[r].tag = "TypeCall" -> Dispatch_TypeCallNode(h, r)
           [] h[r].tag = "IncompleteType" -> Dispatch_IncompleteTypeNode(h, r)
           [] h[r].tag = "FuncType" -> Dispatch_FuncTypeNode(h, r)
           [] h[r].tag = "TypeRelation" -> Dispatch_TypeRelationNode(h, r)
           [] h[r].tag = "TupleType" -> Dispatch_TupleTypeNode(h, r)
           [] h[r].tag = "RefType" -> Dispatch_RefTypeNode(h, r)

(***************************************************************************)
(* The state machine: one action per entry point.  A call replaces the     *)
(* record of the last call; first keeps the first text ever printed, with  *)
(* the node it was printed for.                                            *)
(***************************************************************************)
NoExpr == [e |-> "none"]

Init ==
    /\ heap = <<>>
    /\ op = "none"
    /\ args = <<>>
    /\ ret = Null
    /\ thrown = "none"
    /\ sizeOut = NoExpr
    /\ stream = ""
    /\ first = <<>>

\* a constructor call with outcome r
Invoke(o, a, r) ==
    /\ heap' = r.heap
    /\ op' = o
    /\ args' = a
    /\ ret' = r.ret
    /\ thrown' = r.thrown
    /\ sizeOut' = NoExpr
    /\ stream' = ""
    /\ UNCHANGED first

\* the handles a caller can pass: null, or a node built so far
Refs(h) == 0..Len(h)
NodesOf(h, tag) == {n \in 1..Len(h) : h[n].tag = tag}

\* n->Size() on a tensor type built so far
CallSize(n) ==
    LET r == TensorTypeNode_Size(heap, n)
    IN  /\ heap' = r.heap
        /\ op' = "Size"
        /\ args' = <<n>>
        /\ ret' = Null
        /\ thrown' = "none"
        /\ sizeOut' = r.size
        /\ stream' = ""
        /\ UNCHANGED first

\* stream << ref, for a node built so far, on an empty stream
CallPrint(n) ==
    LET out == IRPrinter_Print(heap, n)
    IN  /\ op' = "IRPrinter"
        /\ args' = <<n>>
        /\ ret' = Null
        /\ thrown' = "none"
        /\ sizeOut' = NoExpr
        /\ stream' = out
        /\ first' = IF first = <<>> THEN <<n, out>> ELSE first
        /\ UNCHANGED heap

(***************************************************************************)
(* Spec: any sequence of calls, each composite constructor given short     *)
(* arrays (at most one element) over the handles the caller holds.         *)
(***************************************************************************)
ShortArrays(h) == {<<>>} \cup {<<r>> : r \in Refs(h)}

Room == Len(heap) < MaxNodes

MakeTensor ==
    /\ Room
    /\ \E shape \in SeqsUpTo({IntImm("int32", 2), AnyDim}, 2), dtype \in {"int32"} :
          Invoke("TensorTypeNode::make", <<shape, dtype>>,
                 TensorTypeNode_make(heap, shape, dtype))

MakeScalar ==
    /\ Room
    /\ \E dtype \in DTypes :
          Invoke("TensorTypeNode::Scalar", <<dtype>>, TensorTypeNode_Scalar(heap, dtype))

MakeTypeVar ==
    /\ Room
    /\ \E name \in Names, kind \in Kinds :
          Invoke("TypeVarNode::make", <<name, kind>>, TypeVarNode_make(heap, name, kind))

MakeGlobalTypeVar ==
    /\ Room
    /\ \E name \in Names, kind \in Kinds :
          Invoke("GlobalTypeVarNode::make", <<name, kind>>,
                 GlobalTypeVarNode_make(heap, name, kind))

MakeTypeCall ==
    /\ Room
    /\ \E func \in Refs(heap), targs \in ShortArrays(heap) :
          Invoke("TypeCallNode::make", <<func, targs>>, TypeCallNode_make(heap, func, targs))

MakeIncompleteType ==
    /\ Room
    /\ \E kind \in Kinds :
          Invoke("IncompleteTypeNode::make", <<kind>>, IncompleteTypeNode_make(heap, kind))

MakeFuncType ==
    /\ Room
    /\ \E arg_types \in ShortArrays(heap), ret_type \in Refs(heap),
          type_params \in {<<>>} \cup {<<v>> : v \in NodesOf(heap, "TypeVar")},
          type_constraints \in {<<>>} \cup {<<c>> : c \in NodesOf(heap, "TypeRelation")} :
          Invoke("FuncTypeNode::make", <<arg_types, ret_type, type_params, type_constraints>>,
                 FuncTypeNode_make(heap, arg_types, ret_type, type_params, type_constraints))

MakeTypeRelation ==
    /\ Room
    /\ \E func \in RelFns, targs \in ShortArrays(heap), attrs \in AttrsRefs :
          \E num_inputs \in {0, Len(targs)} :
             Invoke("TypeRelationNode::make", <<func, targs, num_inputs, attrs>>,
                    TypeRelationNode_make(heap, func, targs, num_inputs, attrs))

MakeTupleType ==
    /\ Room
    /\ \E fields \in ShortArrays(heap) :
          Invoke("TupleTypeNode::make", <<fields>>, TupleTypeNode_make(heap, fields))

MakeRefType ==
    /\ Room
    /\ \E value \in Refs(heap) :
          Invoke("RefTypeNode::make", <<value>>, RefTypeNode_make(heap, value))

Size == \E n \in NodesOf(heap, "TensorType") : CallSize(n)

PrintNode == \E n \in 1..Len(heap) : CallPrint(n)

Next ==
    \/ MakeTensor
    \/ MakeScalar
    \/ MakeTypeVar
    \/ MakeGlobalTypeVar
    \/ MakeTypeCall
    \/ MakeIncompleteType
    \/ MakeFuncType
    \/ MakeTypeRelation
    \/ MakeTupleType
    \/ MakeRefType
    \/ Size
    \/ PrintNode

Spec == Init /\ [][Next]_vars

(***************************************************************************)
(* SpecTensor: tensor types over every shape of rank at most MaxRank,      *)
(* their Size() and their printed form.                                    *)
(***************************************************************************)
Shapes == SeqsUpTo(Dims, MaxRank)

TensorMake ==
    /\ Len(heap) < MaxTensors
    /\ \E shape \in Shapes, dtype \in DTypes :
          Invoke("TensorTypeNode::make", <<shape, dtype>>,
                 TensorTypeNode_make(heap, shape, dtype))

TensorScalar ==
    /\ Len(heap) < MaxTensors
    /\ \E dtype \in DTypes :
          Invoke("TensorTypeNode::Scalar", <<dtype>>, TensorTypeNode_Scalar(heap, dtype))

TensorSize == \E n \in NodesOf(heap, "TensorType") : CallSize(n)

TensorPrint == \E n \in 1..Len(heap) : CallPrint(n)

NextTensor ==
    \/ TensorMake
    \/ TensorScalar
    \/ TensorSize
    \/ TensorPrint

SpecTensor == Init /\ [][NextTensor]_vars

(***************************************************************************)
(* SpecRel: up to MaxLeaves argument types, then one TypeRelationNode::make *)
(* over every argument array of length at most MaxArgs, every num_inputs   *)
(* from -1 to MaxArgs + 1 and every Attrs handle.                          *)
(***************************************************************************)
RelLeaf ==
    /\ Len(heap) < MaxLeaves
    /\ NodesOf(heap, "TypeRelation") = {}
    /\ \/ \E kind \in Kinds :
             Invoke("IncompleteTypeNode::make", <<kind>>, IncompleteTypeNode_make(heap, kind))
       \/ Invoke("TensorTypeNode::Scalar", <<"int32">>, TensorTypeNode_Scalar(heap, "int32"))

RelCall ==
    /\ NodesOf(heap, "TypeRelation") = {}
    /\ \E func \in RelFns, targs \in SeqsUpTo(Refs(heap), MaxArgs),
          num_inputs \in (-1)..(MaxArgs + 1), attrs \in AttrsRefs :
          Invoke("TypeRelationNode::make", <<func, targs, num_inputs, attrs>>,
                 TypeRelationNode_make(heap, func, targs, num_inputs, attrs))

RelPrint == \E n \in NodesOf(heap, "TypeRelation") : CallPrint(n)

NextRel ==
    \/ RelLeaf
    \/ RelCall
    \/ RelPrint

SpecRel == Init /\ [][NextRel]_vars

(***************************************************************************)
(* SpecFunc: up to MaxLeaves scalar tensor types and type variables, at    *)
(* most one relation over them, then one FuncTypeNode::make and its        *)
(* printed form.                                                           *)
(***************************************************************************)
FuncLeaf ==
    /\ Len(heap) < MaxLeaves
    /\ NodesOf(heap, "TypeRelation") = {}
    /\ NodesOf(heap, "FuncType") = {}
    /\ \/ \E dtype \in DTypes :
             Invoke("TensorTypeNode::Scalar", <<dtype>>, TensorTypeNode_Scalar(heap, dtype))
       \/ Invoke("TypeVarNode::make", <<"a", "Type">>, TypeVarNode_make(heap, "a", "Type"))

FuncConstraint ==
    /\ NodesOf(heap, "TypeRelation") = {}
    /\ NodesOf(heap, "FuncType") = {}
    /\ \E targs \in ShortArrays(heap) :
          Invoke("TypeRelationNode::make", <<"Broadcast", targs, Len(targs), Null>>,
                 TypeRelationNode_make(heap, "Broadcast", targs, Len(targs), Null))

FuncCall ==
    /\ NodesOf(heap, "FuncType") = {}
    /\ \E arg_types \in SeqsUpTo(Refs(heap), MaxArgs), ret_type \in Refs(heap),
          type_params \in {<<>>} \cup {<<v>> : v \in NodesOf(heap, "TypeVar")},
          type_constraints \in {<<>>} \cup {<<c>> : c \in NodesOf(heap, "TypeRelation")} :
          Invoke("FuncTypeNode::make", <<arg_types, ret_type, type_params, type_constraints>>,
                 FuncTypeNode_make(heap, arg_types, ret_type, type_params, type_constraints))

FuncPrint == \E n \in NodesOf(heap, "FuncType") : CallPrint(n)

NextFunc ==
    \/ FuncLeaf
    \/ FuncConstraint
    \/ FuncCall
    \/ FuncPrint

SpecFunc == Init /\ [][NextFunc]_vars

(***************************************************************************)
(* What the claims speak of.                                               *)
(***************************************************************************)
HasNull(rs) == \E i \in 1..Len(rs) : rs[i] = Null

\* the last call was a constructor handed a null child type
NullChildCall ==
    \/ op = "TypeCallNode::make" /\ (args[1] = Null \/ HasNull(args[2]))
    \/ op = "FuncTypeNode::make"
          /\ (HasNull(args[1]) \/ args[2] = Null \/ HasNull(args[3]) \/ HasNull(args[4]))
    \/ op = "TupleTypeNode::make" /\ HasNull(args[1])
    \/ op = "RefTypeNode::make" /\ args[1] = Null
    \/ op = "TypeRelationNode::make" /\ HasNull(args[2])

\* the node a composite constructor should build from the inputs of the last call
NodeOfInputs ==
    CASE op = "TypeCallNode::make" -> [tag |-> "TypeCall", func |-> args[1], args |-> args[2]]
      [] op = "FuncTypeNode::make" ->
            [tag |-> "FuncType", arg_types |-> args[1], ret_type |-> args[2],
             type_params |-> args[3], type_constraints |-> args[4]]
      [] op = "TupleTypeNode::make" -> [tag |-> "TupleType", fields |-> args[1]]
      [] op = "RefTypeNode::make" -> [tag |-> "RefType", value |-> args[1]]
      [] op = "TypeRelationNode::make" ->
            [tag |-> "TypeRelation", func |-> args[1], args |-> args[2],
             num_inputs |-> args[3], attrs |-> args[4]]

FieldsOf(tag) ==
    CASE tag = "TensorType" -> {"tag", "shape", "dtype"}
      [] tag = "TypeVar" -> {"tag", "var", "kind"}
      [] tag = "GlobalTypeVar" -> {"tag", "var", "kind"}
      [] tag = "TypeCall" -> {"tag", "func", "args"}
      [] tag = "IncompleteType" -> {"tag", "kind"}
      [] tag = "FuncType" -> {"tag", "arg_types", "ret_type", "type_params", "type_constraints"}
      [] tag = "TypeRelation" -> {"tag", "func", "args", "num_inputs", "attrs"}
      [] tag = "TupleType" -> {"tag", "fields"}
      [] tag = "RefType" -> {"tag", "value"}

\* no half-built node: every node of the heap has all the fields of its variant
FullyBuilt == \A n \in 1..Len(heap) : DOMAIN heap[n] = FieldsOf(heap[n].tag)

RelCalled == op = "TypeRelationNode::make"
NumInputsOutOfRange == RelCalled /\ (args[3] < 0 \/ args[3] > Len(args[2]))
NumInputsInRange == RelCalled /\ 0 <= args[3] /\ args[3] <= Len(args[2])

BadShapeCall ==
    /\ op = "TensorTypeNode::make"
    /\ \E i \in 1..Len(args[1]) : ~IsIntegerDim(args[1][i])

(***************************************************************************)
(* C1 as the spec states it: TypeRelationNode::make with num_inputs < 0 or *)
(* num_inputs > len(args) fails with MalformedRelation and produces no     *)
(* relation node.                                                          *)
(***************************************************************************)
C1_OutOfRangeRejected ==
    NumInputsOutOfRange =>
        /\ thrown = "MalformedRelation"
        /\ ret = Null
        /\ NodesOf(heap, "TypeRelation") = {}

(***************************************************************************)
(* C1 as amended: TypeRelationNode::make does not check num_inputs; with   *)
(* num_inputs < 0 or num_inputs > len(args) it returns normally, and the   *)
(* node it returns holds that num_inputs and the arguments as supplied.    *)
(***************************************************************************)
C1_OutOfRangeAccepted ==
    NumInputsOutOfRange =>
        /\ thrown = "none"
        /\ ret = Len(heap)
        /\ ret # Null
        /\ heap[ret].tag = "TypeRelation"
        /\ heap[ret].num_inputs = args[3]
        /\ heap[ret].args = args[2]

C1_Witness ==
    /\ RelCalled
    /\ Len(args[2]) = 2
    /\ args[3] > Len(args[2])

(***************************************************************************)
(* C2 as the spec states it: a constructor invoked with a null child type  *)
(* fails with NullChild and produces no node.                              *)
(***************************************************************************)
C2_NullChildRejected ==
    NullChildCall => (thrown = "NullChild" /\ ret = Null)

(***************************************************************************)
(* C2 as amended: no constructor checks its children; invoked with a null  *)
(* child it returns normally with a node that stores the null handle where *)
(* it was passed, and every node of the heap is fully built.               *)
(***************************************************************************)
C2_NullChildStored ==
    /\ FullyBuilt
    /\ NullChildCall =>
          /\ thrown = "none"
          /\ ret = Len(heap)
          /\ ret # Null
          /\ heap[ret] = NodeOfInputs

C2_Witness ==
    /\ op = "RefTypeNode::make"
    /\ args[1] = Null

(***************************************************************************)
(* C3 as the spec states it: TensorTypeNode::make with a dimension that is *)
(* neither Any nor an integer expression fails with InvalidShapeDimension  *)
(* and produces no node.                                                   *)
(***************************************************************************)
C3_BadDimensionRejected ==
    BadShapeCall => (thrown = "InvalidShapeDimension" /\ ret = Null)

(***************************************************************************)
(* C3 as amended: TensorTypeNode::make does not check the dimensions; a    *)
(* shape with a dimension that is neither Any nor an integer expression is *)
(* accepted, and the node holds the shape and the dtype as supplied.       *)
(***************************************************************************)
C3_BadDimensionStored ==
    BadShapeCall =>
        /\ thrown = "none"
        /\ ret = Len(heap)
        /\ ret # Null
        /\ heap[ret] = [tag |-> "TensorType", shape |-> args[1], dtype |-> args[2]]

C3_Witness ==
    /\ op = "TensorTypeNode::make"
    /\ Len(args[1]) = 2
    /\ args[1][1].e = "IntImm"
    /\ args[1][2].e = "FloatImm"

(***************************************************************************)
(* C4: with 0 <= num_inputs <= len(args), TypeRelationNode::make returns a *)
(* new node that holds the resolver, the arguments in the same order and   *)
(* number, num_inputs and attrs, all as supplied.                          *)
(***************************************************************************)
C4_RelationHoldsInputs ==
    NumInputsInRange =>
        /\ thrown = "none"
        /\ ret = Len(heap)
        /\ ret # Null
        /\ heap[ret].tag = "TypeRelation"
        /\ heap[ret].func = args[1]
        /\ Len(heap[ret].args) = Len(args[2])
        /\ \A i \in 1..Len(args[2]) : heap[ret].args[i] = args[2][i]
        /\ heap[ret].num_inputs = args[3]
        /\ heap[ret].attrs = args[4]

C4_Witness ==
    /\ NumInputsInRange
    /\ Len(args[2]) = 2
    /\ args[2][1] # args[2][2]
    /\ args[3] = 1
    /\ args[4] = 1

(***************************************************************************)
(* C5: Scalar(d) builds the node make([], d) builds (empty shape, dtype    *)
(* d), and Size() of a tensor type with an empty shape is the constant 1   *)
(* of type int64.                                                          *)
(***************************************************************************)
C5_ScalarIsEmptyShape ==
    /\ op = "TensorTypeNode::Scalar" =>
          /\ ret = Len(heap)
          /\ ret # Null
          /\ heap[ret] = TensorTypeNode_make(<<>>, <<>>, args[1]).heap[1]
          /\ heap[ret].shape = <<>>
          /\ heap[ret].dtype = args[1]
    /\ (op = "Size" /\ heap[args[1]].shape = <<>>) =>
          sizeOut = [e |-> "IntImm", dtype |-> "int64", value |-> 1]

C5_Witness ==
    /\ op = "Size"
    /\ heap[args[1]].shape = <<>>
    /\ sizeOut.e = "IntImm"

(***************************************************************************)
(* C6: Size() of a nonempty shape is the left fold of the product from the *)
(* first dimension, with no unit factor: d0; d0*d1; (d0*d1)*d2; and, for a *)
(* longer shape, Size(all but the last dimension) * the last dimension.    *)
(***************************************************************************)
SizeOfShape(shape) ==
    TensorTypeNode_Size(<<[tag |-> "TensorType", shape |-> shape, dtype |-> "int32"]>>, 1).size

C6_SizeLeftFold ==
    (op = "Size" /\ Len(heap[args[1]].shape) > 0) =>
        LET d == heap[args[1]].shape
            k == Len(d)
        IN  /\ k = 1 => sizeOut = d[1]
            /\ k = 2 => sizeOut = Mul(d[1], d[2])
            /\ k = 3 => sizeOut = Mul(Mul(d[1], d[2]), d[3])
            /\ k > 1 => sizeOut = Mul(SizeOfShape(SubSeq(d, 1, k - 1)), d[k])

C6_Witness ==
    /\ op = "Size"
    /\ Len(heap[args[1]].shape) = 3
    /\ heap[args[1]].shape[1] # heap[args[1]].shape[2]
    /\ heap[args[1]].shape[2] # heap[args[1]].shape[3]
    /\ sizeOut.e = "Mul"

VarMakes == {"TypeVarNode::make", "GlobalTypeVarNode::make", "IncompleteTypeNode::make"}

(***************************************************************************)
(* C7: every call of TypeVarNode::make, GlobalTypeVarNode::make or         *)
(* IncompleteTypeNode::make returns a node whose identity is that of no    *)
(* node built before the call, also when the name and the kind are those   *)
(* of an existing node.                                                    *)
(***************************************************************************)
C7_FreshIdentity ==
    [][op' \in VarMakes =>
          /\ ret' # Null
          /\ ret' \notin 1..Len(heap)
          /\ ret' \in 1..Len(heap')
          /\ \A n \in 1..Len(heap) : heap'[n] = heap[n]]_vars

C7_Witness ==
    /\ op = "TypeVarNode::make"
    /\ ret = 2
    /\ heap[1].tag = "TypeVar"
    /\ heap[1].var.name_hint = args[1]
    /\ heap[1].kind = args[2]

(***************************************************************************)
(* C8: no operation changes a node built before it: constructing a node    *)
(* that takes it as a child, Size() and printing leave every field of      *)
(* every existing node as it was.                                          *)
(***************************************************************************)
C8_NodesImmutable ==
    [][\A n \in 1..Len(heap) : n <= Len(heap') /\ heap'[n] = heap[n]]_vars

\* the handles a node holds
ChildrenOf(node) ==
    CASE node.tag = "TypeCall" -> {node.func} \cup {node.args[i] : i \in 1..Len(node.args)}
      [] node.tag = "FuncType" ->
            {node.ret_type}
               \cup {node.arg_types[i] : i \in 1..Len(node.arg_types)}
               \cup {node.type_params[i] : i \in 1..Len(node.type_params)}
               \cup {node.type_constraints[i] : i \in 1..Len(node.type_constraints)}
      [] node.tag = "TypeRelation" -> {node.args[i] : i \in 1..Len(node.args)}
      [] node.tag = "TupleType" -> {node.fields[i] : i \in 1..Len(node.fields)}
      [] node.tag = "RefType" -> {node.value}
      [] OTHER -> {}

C8_Witness ==
    /\ op = "Size"
    /\ Len(heap[args[1]].shape) = 2
    /\ sizeOut = Mul(heap[args[1]].shape[1], heap[args[1]].shape[2])
    /\ \E p \in 1..Len(heap) : args[1] \in ChildrenOf(heap[p])

\* a node's contents: its fields, with every handle replaced by the contents of
\* the node it refers to
RECURSIVE ContentOf(_, _)
ContentsOf(h, rs) == [i \in 1..Len(rs) |-> ContentOf(h, rs[i])]
ContentOf(h, r) ==
    IF r = Null THEN [tag |-> "null"]
    ELSE LET node == h[r]
         IN  CASE node.tag = "TypeCall" ->
                    [tag |-> node.tag, func |-> ContentOf(h, node.func),
                     args |-> ContentsOf(h, node.args)]
               [] node.tag = "FuncType" ->
                    [tag |-> node.tag, arg_types |-> ContentsOf(h, node.arg_types),
                     ret_type |-> ContentOf(h, node.ret_type),
                     type_params |-> ContentsOf(h, node.type_params),
                     type_constraints |-> ContentsOf(h, node.type_constraints)]
               [] node.tag = "TypeRelation" ->
                    [tag |-> node.tag, func |-> node.func, args |-> ContentsOf(h, node.args),
                     num_inputs |-> node.num_inputs, attrs |-> node.attrs]
               [] node.tag = "TupleType" ->
                    [tag |-> node.tag, fields |-> ContentsOf(h, node.fields)]
               [] node.tag = "RefType" -> [tag |-> node.tag, value |-> ContentOf(h, node.value)]
               [] OTHER -> node

\* an IncompleteType is the node itself or is reachable from it
RECURSIVE HoldsIncomplete(_, _)
HoldsIncomplete(h, r) ==
    /\ r # Null
    /\ \/ h[r].tag = "IncompleteType"
       \/ \E c \in ChildrenOf(h[r]) : HoldsIncomplete(h, c)

PrintedTwiceAlike ==
    (op = "IRPrinter" /\ first # <<>> /\ first[1] = args[1]) => stream = first[2]

(***************************************************************************)
(* C9 as the spec states it: the function type of one int32 argument,      *)
(* result bool, no type parameters and no constraints prints as            *)
(* FuncTypeNode([], [int32], bool, []).                                    *)
(***************************************************************************)
IsScalarOf(r, dtype) ==
    /\ r # Null
    /\ heap[r] = [tag |-> "TensorType", shape |-> <<>>, dtype |-> dtype]

FuncExamplePrinted ==
    /\ op = "IRPrinter"
    /\ heap[args[1]].tag = "FuncType"
    /\ Len(heap[args[1]].arg_types) = 1
    /\ IsScalarOf(heap[args[1]].arg_types[1], "int32")
    /\ IsScalarOf(heap[args[1]].ret_type, "bool")
    /\ heap[args[1]].type_params = <<>>
    /\ heap[args[1]].type_constraints = <<>>

C9_ExampleAsStated ==
    FuncExamplePrinted => stream = "FuncTypeNode([], [int32], bool, [])"

(***************************************************************************)
(* C9 as amended: a function type prints as FuncTypeNode(type parameters,  *)
(* argument types, return type, constraints), in that order whatever the   *)
(* order the constructor takes them in, an empty list printing as [];      *)
(* each type inside prints in its own variant's form, so the example       *)
(* prints as FuncTypeNode([], [TensorType([], int32)], TensorType([],      *)
(* bool), []).                                                             *)
(***************************************************************************)
C9_FuncFieldOrder ==
    /\ (op = "IRPrinter" /\ heap[args[1]].tag = "FuncType") =>
          LET node == heap[args[1]]
          IN  /\ stream = "FuncTypeNode(" \o PrintArray(heap, node.type_params) \o ", "
                             \o PrintArray(heap, node.arg_types) \o ", "
                             \o IRPrinter_Print(heap, node.ret_type) \o ", "
                             \o PrintArray(heap, node.type_constraints) \o ")"
              /\ node.type_params = <<>> => PrintArray(heap, node.type_params) = "[]"
              /\ node.type_constraints = <<>> => PrintArray(heap, node.type_constraints) = "[]"
    /\ FuncExamplePrinted =>
          stream = "FuncTypeNode([], [TensorType([], int32)], TensorType([], bool), [])"

C9_Witness ==
    /\ FuncExamplePrinted
    /\ heap[args[1]].arg_types[1] # heap[args[1]].ret_type

====
